---- MODULE Spec2Model ----
(***************************************************************************)
(* Model of search_agent.py: the interactive chat loop (main), the search  *)
(* decision (check_search_or_not), the retrieval loop (ai_search) with its *)
(* helpers (query_generator, search_duckduckgo, best_search_results,       *)
(* scrape_page, contain_data_needed) and the streamed reply                *)
(* (stream_assistant_response).                                            *)
(*                                                                         *)
(* A Python str is a sequence of tokens: a token is one character, or one  *)
(* fixed piece of an f-string / template.  None is a value apart from      *)
(* every str.  Every call of ollama.chat, requests.get and trafilatura is  *)
(* one step whose outcome (a reply, or an exception) is chosen from a      *)
(* small set.                                                              *)
(***************************************************************************)
EXTENDS Integers, Sequences, FiniteSets, TLC

\* ------------------------------------------------------------------ bounds
MaxTurns == 1        \* user turns read by main before the model stops reading
MaxBlocks == 1       \* result blocks on the search page (Spec)
MaxCandidates == 6   \* candidates a search returns (RetrieveSpec)
MaxChunks == 2       \* chunks of one streamed reply
MaxReplyLen == 4     \* length of a judge reply in the JudgeSpec enumeration
\* blocks on a result page handed to search_duckduckgo on its own
MaxPageBlocks == 11

\* --------------------------------------------------------- program constants
max_attempts == 5        \* ai_search: max_attempts = 5
SelectRetries == 3       \* best_search_results: for attempt in range(3)
MaxResults == 10         \* search_duckduckgo: if i >= 10: break

\* ----------------------------------------------------------------- strings
None == <<"<None>">>

Last(s) == s[Len(s)]
Front(s) == SubSeq(s, 1, Len(s) - 1)
Min(a, b) == IF a <= b THEN a ELSE b

\* str.lower() on the characters the replies are made of
LowerChar(c) ==
    CASE c = "T" -> "t" [] c = "R" -> "r" [] c = "U" -> "u" [] c = "E" -> "e"
      [] c = "F" -> "f" [] c = "A" -> "a" [] c = "L" -> "l" [] c = "S" -> "s"
      [] OTHER -> c
LowerKeepsCase(s) == s
Lower(s) == [i \in 1..Len(s) |-> LowerChar(s[i])]

\* sub in s
Contains(s, sub) ==
    \E i \in 1..(Len(s) - Len(sub) + 1) : SubSeq(s, i, i + Len(sub) - 1) = sub

\* as Remove, for the first occurrence only: s.replace(c, '', 1)
RemoveFirstOnly(s, c) ==
    IF \E i \in 1..Len(s) : s[i] = c
    THEN LET i == CHOOSE i \in 1..Len(s) : s[i] = c /\ \A j \in 1..(i - 1) : s[j] # c
         IN  SubSeq(s, 1, i - 1) \o SubSeq(s, i + 1, Len(s))
    ELSE s

\* s.replace(c, '')
RECURSIVE Remove(_, _)
Remove(s, c) ==
    IF s = <<>> THEN <<>>
    ELSE IF s[1] = c THEN Remove(Tail(s), c)
         ELSE <<s[1]>> \o Remove(Tail(s), c)

\* s.strip() of blanks
RECURSIVE LStrip(_)
LStrip(s) == IF s # <<>> /\ s[1] = " " THEN LStrip(Tail(s)) ELSE s
RECURSIVE RStrip(_)
RStrip(s) == IF s # <<>> /\ Last(s) = " " THEN RStrip(Front(s)) ELSE s
Strip(s) == RStrip(LStrip(s))

\* bool(x) of an Optional[str]
Truthy(x) == x # None /\ x # <<>>

\* 'true' in content.lower()
SaysTrue(content) == Contains(Lower(content), <<"t", "r", "u", "e">>)

\* ---------------------------------------------------------------- messages
Msg(r, c) == [role |-> r, content |-> c]

\* sys_msgs.assistant_agent
assistant_agent == Msg("system", <<"<assistant_agent>">>)

\* f'SEARCH_RESULT: {context} \nUSER_PROMPT: {prompt}'
SearchResultPrompt(ctx, p) == <<"SEARCH_RESULT: ">> \o ctx \o <<" \nUSER_PROMPT: ">> \o p

\* sys_msgs.SEARCH_FAILURE_PROMPT_TEMPLATE.format(prompt=prompt)
SEARCH_FAILURE_PROMPT_TEMPLATE(p) ==
    <<"USER PROMPT: \n">> \o p \o <<" \n\nFAILED SEARCH: \nThe AI search model was unable ...">>

\* ------------------------------------------------------------------ inputs
\* what input() may return (the second holds double quotes, the third is blank)
Prompts == { <<"q">>, <<"\"", "q", "\"">>, <<" ">> }

\* an exception raised by an external call
Raise == <<"<raise>">>

\* replies of the search-decision and page-validation models
JudgeReplies == { <<"T", "r", "u", "e">>, <<"F", "a", "l", "s", "e">>,
                  <<"T", "R", "U", "E", ".">>, <<"t", "r", "u">> }

\* replies of the query-generation model
QueryReplies == { <<"\"", "k", "\"">> }

\* chunks of a streamed reply
Chunks == { <<"a">>, <<"b">> }

\* ------------------------------------------------- pure parts of the code
\* int(text): blanks stripped, an optional sign, then decimal digits
Digits == <<"0", "1", "2", "3", "4", "5", "6", "7", "8", "9">>
IsDigit(c) == \E d \in 1..10 : Digits[d] = c
DigitVal(c) == (CHOOSE d \in 1..10 : Digits[d] = c) - 1
RECURSIVE Decimal(_)
Decimal(s) == IF s = <<>> THEN 0 ELSE 10 * Decimal(Front(s)) + DigitVal(Last(s))
AllDigits(s) == s # <<>> /\ \A i \in 1..Len(s) : IsDigit(s[i])
Unsigned(s) == IF s # <<>> /\ s[1] \in {"+", "-"} THEN Tail(s) ELSE s
IntParses(text) == AllDigits(Unsigned(Strip(text)))
IntOf(text) ==
    LET t == Strip(text)
    IN  IF t[1] = "-" THEN 0 - Decimal(Unsigned(t)) ELSE Decimal(Unsigned(t))

\* list[i] and list.pop(i) take i in -len..len-1; i < 0 counts from the end
IndexInRange(i, n) == 0 - n <= i /\ i < n
PyPos(i, n) == IF i < 0 THEN n + i + 1 ELSE i + 1
PopKeepsAll(list, i) == list
\* as Pop, for list.pop(0) whatever i is
PopFirst(list, i) == Tail(list)
Pop(list, i) ==
    LET k == PyPos(i, Len(list))
    IN  SubSeq(list, 1, k - 1) \o SubSeq(list, k + 1, Len(list))

\* check_search_or_not: the value returned for a model reply (or an exception)
check_search_or_not(reply) == IF reply = Raise THEN FALSE ELSE SaysTrue(reply)

\* contain_data_needed: the value returned for a model reply (or an exception)
contain_data_needed(search_content, reply) ==
    IF reply = Raise THEN FALSE ELSE SaysTrue(reply)

\* query_generator: the value returned for a model reply (or an exception)
query_generator(convo, reply) ==
    IF reply = Raise THEN Last(convo).content ELSE reply

\* search_duckduckgo: the list built from the result blocks of the page; a
\* block is "a" when it holds a result__a link and "-" when not.  Block i (0-based) is
\* looked at only while i < 10, and a linked block becomes a candidate with
\* id i and its own link.
RECURSIVE ResultsUpTo(_, _)
ResultsUpTo(page, n) ==
    IF n = 0 THEN <<>>
    ELSE IF page[n] = "a" /\ n - 1 < MaxResults
         THEN Append(ResultsUpTo(page, n - 1), [id |-> n - 1, link |-> <<"u", Digits[n]>>])
         ELSE ResultsUpTo(page, n - 1)
search_duckduckgo(page) == IF page = Raise THEN <<>> ELSE ResultsUpTo(page, Len(page))

\* best_search_results: return min(index, len(s_results) - 1)
BoundedIndex(index, s_results) == Min(index, Len(s_results) - 1)

\* the pages search may get: every sequence of up to n blocks
RECURSIVE Pages(_)
Pages(n) ==
    IF n = 0 THEN { <<>> }
    ELSE Pages(n - 1) \cup { Append(p, b) : p \in { q \in Pages(n - 1) : Len(q) = n - 1 },
                                            b \in { "a", "-" } }

\* the pages of up to n blocks that all hold a link
LinkedPages(n) == { p \in Pages(n) : \A i \in 1..Len(p) : p[i] = "a" }

\* replies of the result-selection model
SelectReplies == { <<"0">>, <<" ", "1">>, <<"9">>, <<"-", "1">>, <<"-", "9">>, <<"x">> }

\* what trafilatura may hand back
PageTexts == { <<"P">>, <<"Q">> }

VARIABLES
    assistant_convo,    \* the module-level conversation list
    pc,                 \* where the control thread is
    turns,              \* prompts accepted so far
    prompt,             \* main: prompt
    context,            \* main: context = ai_search()
    search_query,       \* ai_search: search_query
    search_results,     \* ai_search: search_results
    attempt,            \* ai_search: iterations of the for loop started
    best_result_index,  \* ai_search: best_result_index
    sel_attempt,        \* best_search_results: model calls made in this call
    response,           \* best_search_results: reply of the latest model call
    page_link,          \* ai_search: page_link
    page_text,          \* ai_search: page_text
    complete_response,  \* stream_assistant_response: complete_response
    chunks,             \* the chunks the stream has yielded so far
    notice,             \* the "Could not generate response" line was printed
    judge,              \* JudgeSpec: one call of a judge, with its input and result
    blocks,             \* SearchSpec: the result blocks search_duckduckgo is given
    logged,             \* main: what its except clauses logged since the last prompt
    relevant,           \* ai_search: what contain_data_needed said in this attempt
    calls,              \* external calls made during this turn, by kind
    events              \* what main has done in this turn, in order

vars == << assistant_convo, pc, turns, prompt, context, search_query, search_results,
           attempt, best_result_index, sel_attempt, response, page_link, page_text,
           complete_response, chunks, notice, judge, blocks, logged, relevant,
           calls, events >>

NoCalls == [decide |-> 0, query |-> 0, search |-> 0, select |-> 0, fetch |-> 0, relevant |-> 0]

Count(kind) == [calls EXCEPT ![kind] = @ + 1]

\* locals of ai_search and best_search_results
ai_vars == << search_query, search_results, attempt, best_result_index, sel_attempt,
             response, page_link, page_text >>
\* locals of stream_assistant_response
stream_vars == << complete_response, chunks >>

\* no judge call is on trial
NoJudge == [fn |-> "none", text |-> <<>>, reply |-> <<>>, result |-> FALSE]

\* the program right after the module is loaded and main is entered
InitProgram ==
    /\ assistant_convo = << assistant_agent >>
    /\ pc = "input"
    /\ turns = 0
    /\ prompt = <<>>
    /\ context = None
    /\ search_query = <<>>
    /\ search_results = <<>>
    /\ attempt = 0
    /\ best_result_index = 0
    /\ sel_attempt = 0
    /\ response = None
    /\ page_link = None
    /\ page_text = None
    /\ complete_response = <<>>
    /\ chunks = <<>>
    /\ notice = FALSE
    /\ logged = "none"
    /\ relevant = "none"
    /\ calls = NoCalls
    /\ events = <<>>

Init == InitProgram /\ judge = NoJudge /\ blocks = None

\* ------------------------------------------------------------------- main
\* the locals of ai_search and of main are dead once the function or the
\* turn is over: they are put back to their initial values, so that states
\* which differ only in dead values coincide
ClearAi ==
    /\ search_query' = <<>>
    /\ search_results' = <<>>
    /\ attempt' = 0
    /\ best_result_index' = 0
    /\ sel_attempt' = 0
    /\ response' = None
    /\ page_link' = None
    /\ page_text' = None

ClearStream ==
    /\ complete_response' = <<>>
    /\ chunks' = <<>>

\* main: prompt = input(...); a blank prompt is skipped, any other is appended
MainInput(maxTurns) ==
    /\ pc = "input"
    /\ turns < maxTurns
    /\ \E p \in Prompts :
        IF Strip(p) = <<>>
        THEN UNCHANGED vars
        ELSE /\ prompt' = p
             /\ assistant_convo' = Append(assistant_convo, Msg("user", p))
             /\ turns' = turns + 1
             /\ pc' = "check"
             /\ notice' = FALSE
             /\ calls' = NoCalls
             /\ events' = << "appendUser" >>
             /\ logged' = "none"
             /\ UNCHANGED << context, ai_vars, stream_vars >>
    /\ UNCHANGED << judge, blocks, relevant >>

\* as CheckSearchOrNot, with assistant_convo.pop() and the append of the
\* prompt outside the if: they also run when no search is made
CheckSearchOrNotAlwaysPops ==
    /\ pc = "check"
    /\ \E reply \in JudgeReplies \cup { Raise } :
        IF check_search_or_not(reply)
        THEN /\ pc' = "query"
             /\ events' = events \o << "needsSearch", "retrieve" >>
        ELSE /\ pc' = "stream"
             /\ events' = events \o << "needsSearch", "removeUser", "appendUser" >>
    /\ calls' = Count("decide")
    /\ UNCHANGED << assistant_convo, turns, prompt, context, ai_vars, stream_vars, notice >>
    /\ UNCHANGED << judge, blocks, logged, relevant >>

\* as CheckSearchOrNot, with the user message popped before ai_search is called
CheckSearchOrNotPopsFirst ==
    /\ pc = "check"
    /\ \E reply \in JudgeReplies \cup { Raise } :
        IF check_search_or_not(reply)
        THEN /\ pc' = "query"
             /\ assistant_convo' = Front(assistant_convo)
             /\ events' = events \o << "needsSearch", "removeUser", "retrieve" >>
        ELSE /\ pc' = "stream"
             /\ assistant_convo' = assistant_convo
             /\ events' = Append(events, "needsSearch")
    /\ calls' = Count("decide")
    /\ UNCHANGED << turns, prompt, context, ai_vars, stream_vars, notice >>
    /\ UNCHANGED << judge, blocks, logged, relevant >>

\* main: if check_search_or_not(): ... (one model call)
CheckSearchOrNot ==
    /\ pc = "check"
    /\ \E reply \in JudgeReplies \cup { Raise } :
        IF check_search_or_not(reply)
        THEN /\ pc' = "query"
             /\ events' = events \o << "needsSearch", "retrieve" >>
        ELSE /\ pc' = "stream"
             /\ events' = Append(events, "needsSearch")
    /\ calls' = Count("decide")
    /\ UNCHANGED << assistant_convo, turns, prompt, context, ai_vars, stream_vars, notice >>
    /\ UNCHANGED << judge, blocks, logged, relevant >>

\* ai_search returns value v to main
Return(v) ==
    /\ context' = v
    /\ pc' = "inject"
    /\ ClearAi

\* ai_search: search_query = query_generator().replace('"', '') (one model call)
QueryGenerator ==
    /\ pc = "query"
    /\ \E reply \in QueryReplies \cup { Raise } :
        search_query' = Remove(query_generator(assistant_convo, reply), "\"")
    /\ pc' = "search"
    /\ calls' = Count("query")
    /\ UNCHANGED << assistant_convo, turns, prompt, context, search_results, attempt,
                    best_result_index, sel_attempt, response, page_link, page_text,
                    stream_vars, notice, events >>
    /\ UNCHANGED << judge, blocks, logged, relevant >>

\* as SearchDuckDuckGo, without the return for an empty list
SearchDuckDuckGoNoShortCircuit(pages) ==
    /\ pc = "search"
    /\ calls' = Count("search")
    /\ \E page \in pages \cup { Raise } : search_results' = search_duckduckgo(page)
    /\ pc' = "loop"
    /\ UNCHANGED << assistant_convo, turns, prompt, context, search_query, attempt,
                    best_result_index, sel_attempt, response, page_link, page_text,
                    stream_vars, notice, events >>
    /\ UNCHANGED << judge, blocks, logged, relevant >>

\* ai_search: search_results = search_duckduckgo(search_query); empty -> None
SearchDuckDuckGo(pages) ==
    /\ pc = "search"
    /\ calls' = Count("search")
    /\ \E page \in pages \cup { Raise } :
        LET results == search_duckduckgo(page)
        IN  IF results = <<>>
            THEN Return(None)
            ELSE /\ search_results' = results
                 /\ pc' = "loop"
                 /\ UNCHANGED << context, search_query, attempt, best_result_index,
                                 sel_attempt, response, page_link, page_text >>
    /\ UNCHANGED << assistant_convo, turns, prompt, stream_vars, notice, events >>
    /\ UNCHANGED << judge, blocks, logged, relevant >>

\* as ForAttempt, with a return of None as soon as the list is empty
ForAttemptStopsWhenEmpty ==
    /\ pc = "loop"
    /\ IF attempt = max_attempts \/ search_results = <<>>
       THEN Return(None)
       ELSE /\ attempt' = attempt + 1
            /\ sel_attempt' = 0
            /\ response' = None
            /\ page_link' = None
            /\ page_text' = None
            /\ best_result_index' = 0
            /\ pc' = "select"
            /\ UNCHANGED << context, search_query, search_results >>
    /\ relevant' = "none"
    /\ UNCHANGED << assistant_convo, turns, prompt, stream_vars, notice, calls, events >>
    /\ UNCHANGED << judge, blocks, logged >>

\* as ForAttempt, with best_search_results calling the model for an empty
\* list too
ForAttemptNoEmptyGuard ==
    /\ pc = "loop"
    /\ IF attempt = max_attempts
       THEN Return(None)
       ELSE /\ attempt' = attempt + 1
            /\ sel_attempt' = 0
            /\ response' = None
            /\ page_link' = None
            /\ page_text' = None
            /\ best_result_index' = 0
            /\ pc' = "select"
            /\ UNCHANGED << context, search_query, search_results >>
    /\ relevant' = "none"
    /\ UNCHANGED << assistant_convo, turns, prompt, stream_vars, notice, calls, events >>
    /\ UNCHANGED << judge, blocks, logged >>

\* ai_search: for attempt in range(max_attempts), up to the call of
\* best_search_results, which returns 0 at once for an empty list
ForAttempt ==
    /\ pc = "loop"
    /\ IF attempt = max_attempts
       THEN Return(None)
       ELSE /\ attempt' = attempt + 1
            /\ sel_attempt' = 0
            /\ response' = None
            /\ page_link' = None
            /\ page_text' = None
            /\ best_result_index' = 0
            /\ pc' = IF search_results = <<>> THEN "index" ELSE "select"
            /\ UNCHANGED << context, search_query, search_results >>
    /\ relevant' = "none"
    /\ UNCHANGED << assistant_convo, turns, prompt, stream_vars, notice, calls, events >>
    /\ UNCHANGED << judge, blocks, logged >>

\* as SelectCall, with the return inside the loop lost: an accepted reply is
\* kept and the loop goes on to its third pass
SelectCallNoEarlyReturn ==
    /\ pc = "select"
    /\ calls' = Count("select")
    /\ sel_attempt' = sel_attempt + 1
    /\ \E reply \in SelectReplies \cup { Raise } :
        /\ IF reply # Raise /\ IntParses(reply)
           THEN /\ response' = reply
                /\ best_result_index' = BoundedIndex(IntOf(reply), search_results)
           ELSE /\ response' = response
                /\ best_result_index' = best_result_index
        /\ pc' = IF sel_attempt + 1 = SelectRetries THEN "index" ELSE "select"
    /\ UNCHANGED << assistant_convo, turns, prompt, context, search_query, search_results,
                    attempt, page_link, page_text, stream_vars, notice, events >>
    /\ UNCHANGED << judge, blocks, logged, relevant >>

\* as SelectCall, with a fourth pass of the loop of best_search_results
SelectCallFourTries ==
    /\ pc = "select"
    /\ calls' = Count("select")
    /\ sel_attempt' = sel_attempt + 1
    /\ \E reply \in SelectReplies \cup { Raise } :
        IF reply # Raise /\ IntParses(reply)
        THEN /\ response' = reply
             /\ best_result_index' = BoundedIndex(IntOf(reply), search_results)
             /\ pc' = "index"
        ELSE /\ response' = None
             /\ best_result_index' = best_result_index
             /\ pc' = IF sel_attempt + 1 = SelectRetries + 1 THEN "index" ELSE "select"
    /\ UNCHANGED << assistant_convo, turns, prompt, context, search_query, search_results,
                    attempt, page_link, page_text, stream_vars, notice, events >>
    /\ UNCHANGED << judge, blocks, logged, relevant >>

\* best_search_results: one pass of for attempt in range(3) (one model call);
\* response is the reply that int() accepted, None while there is none;
\* best_result_index is 0 until a reply is accepted, which is the return 0
\* after the loop
SelectCall ==
    /\ pc = "select"
    /\ calls' = Count("select")
    /\ sel_attempt' = sel_attempt + 1
    /\ \E reply \in SelectReplies \cup { Raise } :
        IF reply # Raise /\ IntParses(reply)
        THEN /\ response' = reply
             /\ best_result_index' = BoundedIndex(IntOf(reply), search_results)
             /\ pc' = "index"
        ELSE /\ response' = None
             /\ best_result_index' = best_result_index
             /\ pc' = IF sel_attempt + 1 = SelectRetries THEN "index" ELSE "select"
    /\ UNCHANGED << assistant_convo, turns, prompt, context, search_query, search_results,
                    attempt, page_link, page_text, stream_vars, notice, events >>
    /\ UNCHANGED << judge, blocks, logged, relevant >>

\* as SkipInvalidIndex, with the skipped attempt not counted among the
\* max_attempts iterations
SkipGivesRetryBack ==
    /\ pc = "index"
    /\ best_result_index >= Len(search_results)
    /\ pc' = "loop"
    /\ attempt' = attempt - 1
    /\ UNCHANGED << search_query, search_results, best_result_index, sel_attempt,
                    response, page_link, page_text >>
    /\ UNCHANGED << assistant_convo, turns, prompt, context, stream_vars,
                    notice, calls, events >>
    /\ UNCHANGED << judge, blocks, logged, relevant >>

\* ai_search: if best_result_index >= len(search_results): continue
SkipInvalidIndex ==
    /\ pc = "index"
    /\ best_result_index >= Len(search_results)
    /\ pc' = "loop"
    /\ UNCHANGED << assistant_convo, turns, prompt, context, ai_vars, stream_vars,
                    notice, calls, events >>
    /\ UNCHANGED << judge, blocks, logged, relevant >>

\* as IndexErrorCaught, without the try/except of ai_search: the IndexError
\* reaches the except clause of main
IndexErrorPropagates ==
    /\ pc = "index"
    /\ best_result_index < Len(search_results)
    /\ ~ IndexInRange(best_result_index, Len(search_results))
    /\ pc' = "input"
    /\ ClearAi
    /\ UNCHANGED << assistant_convo, turns, prompt, context, stream_vars, notice, calls, events >>
    /\ UNCHANGED << judge, blocks, logged, relevant >>

\* ai_search: search_results[best_result_index] raises IndexError, which the
\* except clause of ai_search turns into None
IndexErrorCaught ==
    /\ pc = "index"
    /\ best_result_index < Len(search_results)
    /\ ~ IndexInRange(best_result_index, Len(search_results))
    /\ Return(None)
    /\ UNCHANGED << assistant_convo, turns, prompt, stream_vars, notice, calls, events >>
    /\ UNCHANGED << judge, blocks, logged, relevant >>

\* ai_search: page_text = scrape_page(page_link); a falsy page_text pops the
\* candidate without a call of contain_data_needed
ScrapePage ==
    /\ pc = "index"
    /\ IndexInRange(best_result_index, Len(search_results))
    /\ page_link' = search_results[PyPos(best_result_index, Len(search_results))].link
    /\ calls' = Count("fetch")
    /\ \E text \in PageTexts \cup { None, <<>> } :
        /\ page_text' = text
        /\ IF Truthy(text)
           THEN pc' = "validate" /\ search_results' = search_results
           ELSE pc' = "loop" /\ search_results' = Pop(search_results, best_result_index)
    /\ UNCHANGED << assistant_convo, turns, prompt, context, search_query, attempt,
                    best_result_index, sel_attempt, response, stream_vars, notice, events >>
    /\ UNCHANGED << judge, blocks, logged, relevant >>

\* as ContainDataNeeded, with page_text returned whatever
\* contain_data_needed says
ContainDataNeededIgnoresVerdict ==
    /\ pc = "validate"
    /\ calls' = Count("relevant")
    /\ \E reply \in JudgeReplies \cup { Raise } :
        /\ relevant' = IF contain_data_needed(page_text, reply) THEN "yes" ELSE "no"
        /\ Return(page_text)
    /\ UNCHANGED << assistant_convo, turns, prompt, stream_vars, notice, events >>
    /\ UNCHANGED << judge, blocks, logged >>

\* ai_search: contain_data_needed(page_text, search_query) (one model call):
\* true returns page_text, false pops the candidate
ContainDataNeeded ==
    /\ pc = "validate"
    /\ calls' = Count("relevant")
    /\ \E reply \in JudgeReplies \cup { Raise } :
        IF contain_data_needed(page_text, reply)
        THEN /\ relevant' = "yes"
             /\ Return(page_text)
        ELSE /\ relevant' = "no"
             /\ search_results' = Pop(search_results, best_result_index)
             /\ pc' = "loop"
             /\ UNCHANGED << context, search_query, attempt, best_result_index,
                             sel_attempt, response, page_link, page_text >>
    /\ UNCHANGED << assistant_convo, turns, prompt, stream_vars, notice, events >>
    /\ UNCHANGED << judge, blocks, logged >>

\* as InjectContext, with assistant_convo.pop() done twice
InjectContextPopsTwice ==
    /\ pc = "inject"
    /\ LET p == IF Truthy(context)
                THEN SearchResultPrompt(context, prompt)
                ELSE SEARCH_FAILURE_PROMPT_TEMPLATE(prompt)
       IN  /\ prompt' = p
           /\ assistant_convo' = Append(Front(Front(assistant_convo)), Msg("user", p))
    /\ events' = events \o << "removeUser", "appendUser" >>
    /\ pc' = "stream"
    /\ relevant' = "none"
    /\ UNCHANGED << turns, context, ai_vars, stream_vars, notice, calls >>
    /\ UNCHANGED << judge, blocks, logged >>

\* as InjectContext, without assistant_convo.pop()
InjectContextKeepsRaw ==
    /\ pc = "inject"
    /\ LET p == IF Truthy(context)
                THEN SearchResultPrompt(context, prompt)
                ELSE SEARCH_FAILURE_PROMPT_TEMPLATE(prompt)
       IN  /\ prompt' = p
           /\ assistant_convo' = Append(assistant_convo, Msg("user", p))
    /\ events' = events \o << "removeUser", "appendUser" >>
    /\ pc' = "stream"
    /\ relevant' = "none"
    /\ UNCHANGED << turns, context, ai_vars, stream_vars, notice, calls >>
    /\ UNCHANGED << judge, blocks, logged >>

\* main: assistant_convo.pop(); prompt = ...; assistant_convo.append(...)
InjectContext ==
    /\ pc = "inject"
    /\ LET p == IF Truthy(context)
                THEN SearchResultPrompt(context, prompt)
                ELSE SEARCH_FAILURE_PROMPT_TEMPLATE(prompt)
       IN  /\ prompt' = p
           /\ assistant_convo' = Append(Front(assistant_convo), Msg("user", p))
    /\ events' = events \o << "removeUser", "appendUser" >>
    /\ pc' = "stream"
    /\ relevant' = "none"
    /\ UNCHANGED << turns, context, ai_vars, stream_vars, notice, calls >>
    /\ UNCHANGED << judge, blocks, logged >>

\* the turn is over: back to input()
EndTurn ==
    /\ pc' = "input"
    /\ prompt' = <<>>
    /\ context' = None
    /\ calls' = NoCalls
    /\ events' = <<>>
    /\ ClearStream
    /\ UNCHANGED << turns, ai_vars >>

\* stream_assistant_response: ollama.chat(..., stream=True)
StreamStart ==
    /\ pc = "stream"
    /\ \/ /\ pc' = "chunk"
          /\ events' = Append(events, "generateReply")
          /\ UNCHANGED << assistant_convo, turns, prompt, context, ai_vars, stream_vars,
                          notice, calls >>
       \/ /\ notice' = TRUE
          /\ EndTurn
          /\ UNCHANGED assistant_convo
    /\ UNCHANGED << judge, blocks, logged, relevant >>

\* stream_assistant_response: one chunk of the stream arrives
StreamChunk ==
    /\ pc = "chunk"
    /\ Len(chunks) < MaxChunks
    /\ \E c \in Chunks :
        /\ complete_response' = complete_response \o c
        /\ chunks' = Append(chunks, c)
    /\ UNCHANGED << assistant_convo, pc, turns, prompt, context, ai_vars, notice, calls, events >>
    /\ UNCHANGED << judge, blocks, logged, relevant >>

\* as StreamFail, with the partial reply appended
StreamFailAppendsPartial ==
    /\ pc = "chunk"
    /\ notice' = TRUE
    /\ assistant_convo' = Append(assistant_convo, Msg("assistant", complete_response))
    /\ EndTurn
    /\ UNCHANGED << judge, blocks, logged, relevant >>

\* stream_assistant_response: the stream raises while it is read
StreamFail ==
    /\ pc = "chunk"
    /\ notice' = TRUE
    /\ EndTurn
    /\ UNCHANGED assistant_convo
    /\ UNCHANGED << judge, blocks, logged, relevant >>

\* stream_assistant_response: the stream ends and the reply is appended
StreamEnd ==
    /\ pc = "chunk"
    /\ assistant_convo' = Append(assistant_convo, Msg("assistant", complete_response))
    /\ EndTurn
    /\ UNCHANGED notice
    /\ UNCHANGED << judge, blocks, logged, relevant >>

\* main: except KeyboardInterrupt: break
Interrupt ==
    /\ pc # "done"
    /\ pc' = "done"
    /\ prompt' = <<>>
    /\ context' = None
    /\ calls' = NoCalls
    /\ events' = <<>>
    /\ ClearAi
    /\ ClearStream
    /\ logged' = "shutdown"
    /\ relevant' = "none"
    /\ UNCHANGED << assistant_convo, turns, notice >>
    /\ UNCHANGED << judge, blocks >>

\* as MainInputError, with the loop left after the error is logged
MainInputErrorEndsLoop ==
    /\ pc = "input"
    /\ pc' = "done"
    /\ logged' = "main_error"
    /\ UNCHANGED << assistant_convo, turns, prompt, context, ai_vars, stream_vars,
                    notice, judge, blocks, relevant, calls, events >>

\* main: input() raises (EOFError at the end of the input); except Exception
\* logs 'Error in main loop' and the while loop goes round again
MainInputError ==
    /\ pc = "input"
    /\ logged' = "main_error"
    /\ UNCHANGED << assistant_convo, pc, turns, prompt, context, ai_vars, stream_vars,
                    notice, judge, blocks, relevant, calls, events >>

Next ==
    \/ MainInput(MaxTurns)
    \/ CheckSearchOrNot
    \/ QueryGenerator
    \/ SearchDuckDuckGo(Pages(MaxBlocks))
    \/ ForAttempt
    \/ SelectCall
    \/ SkipInvalidIndex
    \/ IndexErrorCaught
    \/ ScrapePage
    \/ ContainDataNeeded
    \/ InjectContext
    \/ StreamStart
    \/ StreamChunk
    \/ StreamFail
    \/ StreamEnd
    \/ Interrupt
    \/ MainInputError

Spec == Init /\ [][Next]_vars

\* one user turn, with searches that return up to MaxCandidates candidates
RetrieveNext ==
    \/ MainInput(1)
    \/ CheckSearchOrNot
    \/ QueryGenerator
    \/ SearchDuckDuckGo(LinkedPages(MaxCandidates))
    \/ ForAttempt
    \/ SelectCall
    \/ SkipInvalidIndex
    \/ IndexErrorCaught
    \/ ScrapePage
    \/ ContainDataNeeded
    \/ InjectContext
    \/ StreamStart
    \/ StreamChunk
    \/ StreamFail
    \/ StreamEnd
    \/ Interrupt
    \/ MainInputError

RetrieveSpec == Init /\ [][RetrieveNext]_vars

\* the steps of ai_search alone, each the return or the exception of one
\* external call or the code between two calls
RetrieveStep ==
    \/ QueryGenerator
    \/ SearchDuckDuckGo(LinkedPages(MaxCandidates))
    \/ ForAttempt
    \/ SelectCall
    \/ SkipInvalidIndex
    \/ IndexErrorCaught
    \/ ScrapePage
    \/ ContainDataNeeded

\* ------------------------------------------------------------- the judges
\* the characters judge replies are made of, and every reply of up to n of them
JudgeAlphabet == { "t", "T", "r", "R", "u", "U", "e", "E", "x" }
RepliesUpTo(n) == UNION { [1..k -> JudgeAlphabet] : k \in 0..n }

\* one call of check_search_or_not or contain_data_needed is to be made,
\* with a page text and a model reply (or an exception) chosen beforehand
JudgeInit ==
    /\ InitProgram
    /\ blocks = None
    /\ \E t \in PageTexts, r \in RepliesUpTo(MaxReplyLen) \cup JudgeReplies \cup { Raise } :
        judge = [fn |-> "pending", text |-> t, reply |-> r, result |-> FALSE]

\* check_search_or_not() on the chosen reply
JudgeNeedsSearch ==
    /\ judge.fn = "pending"
    /\ judge' = [judge EXCEPT !.fn = "needsSearch", !.result = check_search_or_not(judge.reply)]
    /\ UNCHANGED << assistant_convo, pc, turns, prompt, context, ai_vars, stream_vars,
                    notice, blocks, logged, relevant, calls, events >>

\* contain_data_needed(text, query) on the chosen text and reply
JudgeIsRelevant ==
    /\ judge.fn = "pending"
    /\ judge' = [judge EXCEPT !.fn = "isRelevant",
                              !.result = contain_data_needed(judge.text, judge.reply)]
    /\ UNCHANGED << assistant_convo, pc, turns, prompt, context, ai_vars, stream_vars,
                    notice, blocks, logged, relevant, calls, events >>

JudgeNext == JudgeNeedsSearch \/ JudgeIsRelevant

JudgeSpec == JudgeInit /\ [][JudgeNext]_vars

\* ---- search_duckduckgo on its own: every page of up to MaxPageBlocks blocks,
\* ---- or a failed request, is parsed once
SearchInit ==
    /\ InitProgram
    /\ judge = NoJudge
    /\ blocks \in Pages(MaxPageBlocks) \cup { Raise }

\* results = search_duckduckgo(search_query) for the page in blocks
SearchPage ==
    /\ pc = "input"
    /\ blocks # None
    /\ search_results' = search_duckduckgo(blocks)
    /\ pc' = "searched"
    /\ UNCHANGED << assistant_convo, turns, prompt, context, search_query, attempt,
                    best_result_index, sel_attempt, response, page_link, page_text,
                    stream_vars, notice, judge, blocks, logged, relevant,
                    calls, events >>

SearchNext == SearchPage
SearchSpec == SearchInit /\ [][SearchNext]_vars

\* ------------------------------------------------------------ properties
\* where the control thread is while ai_search runs
RetrievePcs == { "query", "search", "loop", "select", "index", "validate" }
\* where it is inside the for loop of ai_search
LoopPcs == { "loop", "select", "index", "validate" }

\* a step of the for loop that ends an attempt by a failure: the fetched
\* text is falsy, or the text is judged not relevant
FailedAttemptStep ==
    \/ pc = "index" /\ pc' = "loop" /\ calls'.fetch = calls.fetch + 1
    \/ pc = "validate" /\ pc' = "loop"

\* C1: in every run of ai_search at most 5 selection attempts are started,
\* no step of the loop makes the candidate list longer, and every failed
\* attempt (text absent or judged not relevant) makes it shorter by
\* exactly one.
C1_BoundedShrinkingLoop ==
    [][ /\ attempt' <= max_attempts
        /\ (pc \in LoopPcs /\ pc' \in LoopPcs)
              => Len(search_results') <= Len(search_results)
        /\ FailedAttemptStep => Len(search_results') = Len(search_results) - 1 ]_vars

\* five attempts have failed on six candidates: one candidate is left
C1_Witness ==
    /\ pc = "loop"
    /\ attempt = max_attempts
    /\ calls.fetch = max_attempts
    /\ Len(search_results) = 1

\* C2: best_search_results returns an index in [0, len-1] for a non-empty
\* list, whatever integer the model replies, and 0 without a model call
\* for an empty list.
C2_IndexWithinBounds ==
    pc = "index" =>
        IF search_results = <<>>
        THEN best_result_index = 0 /\ sel_attempt = 0
        ELSE 0 <= best_result_index /\ best_result_index <= Len(search_results) - 1

\* C3: ai_search never lets a failure out: every step that leaves it, other
\* than the user's interrupt, hands main None or a scraped text, and the
\* IndexError of an unusable index is turned into None.
C3_NeverPropagates ==
    [][ /\ (pc \in RetrievePcs /\ pc' \notin RetrievePcs /\ pc' # "done")
              => pc' = "inject" /\ (context' = None \/ context' \in PageTexts)
        /\ (pc = "index" /\ best_result_index < Len(search_results) /\ pc' # "done"
              /\ ~ IndexInRange(best_result_index, Len(search_results)))
              => pc' = "inject" /\ context' = None ]_vars

\* ai_search has returned None after a selection and without any fetch:
\* the selected index raised IndexError
C3_Witness ==
    /\ pc = "inject"
    /\ context = None
    /\ calls.select >= 1
    /\ calls.fetch = 0

\* C4 as stated: in a turn that searches, the user message is removed
\* before ai_search starts.
C4_RemovedBeforeRetrieve ==
    \A i, j \in 1..Len(events) :
        (events[i] = "retrieve" /\ events[j] = "removeUser") => j < i

\* C4 as the code has it: in a turn that searches, the user message stays
\* the last message of the conversation for the whole of ai_search and is
\* removed after ai_search has returned: append user text, needsSearch,
\* retrieve, remove user message, append replacement, generateReply.
C4_RemovedAfterRetrieve ==
    /\ pc \in RetrievePcs \cup { "inject" } =>
          /\ Last(assistant_convo) = Msg("user", prompt)
          /\ events = << "appendUser", "needsSearch", "retrieve" >>
    /\ (pc = "chunk" /\ calls.query > 0) =>
          events = << "appendUser", "needsSearch", "retrieve", "removeUser",
                      "appendUser", "generateReply" >>

\* the reply is being streamed in a turn that searched
C4_Witness ==
    /\ pc = "chunk"
    /\ calls.search = 1
    /\ Len(events) = 6

\* C5: in a turn that searches, generateReply is invoked on a conversation
\* in which the raw user message of the turn has been replaced by exactly
\* one user message: after Found(text) it embeds the original prompt and
\* the text, after NotFound it is the failure template filled with the
\* original prompt.
C5_ReplacementMessage ==
    [][ (pc = "inject" /\ pc' # "done") =>
          LET m == Last(assistant_convo')
          IN  /\ pc' = "stream"
              /\ Last(assistant_convo) = Msg("user", prompt)
              /\ Len(assistant_convo') = Len(assistant_convo)
              /\ Front(assistant_convo') = Front(assistant_convo)
              /\ m.role = "user"
              /\ m.content # prompt
              /\ IF context = None
                 THEN m.content = SEARCH_FAILURE_PROMPT_TEMPLATE(prompt)
                 ELSE /\ context \in PageTexts
                      /\ Contains(m.content, prompt)
                      /\ Contains(m.content, context)
                      /\ m.content # SEARCH_FAILURE_PROMPT_TEMPLATE(prompt) ]_vars

\* generateReply is about to run on a conversation whose only user message
\* embeds the scraped text P and the quoted prompt
C5_Witness ==
    /\ pc = "stream"
    /\ calls.relevant >= 1
    /\ Len(assistant_convo) = 2
    /\ Contains(Last(assistant_convo).content, <<"P">>)
    /\ Contains(Last(assistant_convo).content, <<"\"", "q", "\"">>)

\* C6 as stated: once n < 5 failed attempts have emptied the list, ai_search
\* returns without starting attempt n+1 (every attempt started has fetched).
C6_NoAttemptAfterEmpty ==
    (pc \in LoopPcs /\ search_results = <<>>) => attempt = calls.fetch

\* C6 as the code has it: with n < 5 candidates and every attempt failing,
\* the list is empty after n removals, and the loop still starts attempts
\* n+1..5; each of them gets 0 from best_search_results without a model
\* call, is skipped by the index check, and makes no fetch and no removal;
\* None is returned once 5 attempts have been started.
C6_EmptyListRunsOut ==
    [][ (pc \in LoopPcs /\ search_results = <<>> /\ pc' # "done") =>
          /\ calls' = calls
          /\ IF pc = "loop" /\ attempt = max_attempts
             THEN pc' = "inject" /\ context' = None
             ELSE /\ pc' \in { "loop", "index" }
                  /\ search_results' = <<>>
                  /\ best_result_index' = 0
                  /\ attempt' = IF pc = "loop" THEN attempt + 1 ELSE attempt ]_vars

\* three candidates, three fetches, and attempt 4 has been started on the
\* empty list
C6_Witness ==
    /\ pc = "index"
    /\ search_results = <<>>
    /\ calls.fetch = 3
    /\ attempt = 4

\* model calls and page fetches of ai_search in this turn
RetrieveModelCalls == calls.query + calls.select + calls.relevant

\* C7 as stated: when search returns an empty list, ai_search returns None
\* and has made no model call and no page fetch.
C7_EmptySearchNoCalls ==
    [][ (pc = "search" /\ search_results' = <<>> /\ pc' # "done") =>
          /\ pc' = "inject"
          /\ context' = None
          /\ RetrieveModelCalls' = 0
          /\ calls'.fetch = 0 ]_vars

\* C7 as the code has it: when search returns an empty list, ai_search
\* returns None at once; the one model call of the run is the query
\* generation that precedes the search, and there is no selection call, no
\* relevance call and no page fetch.
C7_EmptySearchOnlyQueryCall ==
    [][ (pc = "search" /\ search_results' = <<>> /\ pc' # "done") =>
          /\ pc' = "inject"
          /\ context' = None
          /\ calls'.query = 1
          /\ calls'.search = 1
          /\ calls'.select = 0
          /\ calls'.relevant = 0
          /\ calls'.fetch = 0 ]_vars

\* ai_search has returned right after its search
C7_Witness ==
    /\ pc = "inject"
    /\ context = None
    /\ calls.search = 1
    /\ calls.select = 0

\* C8: best_search_results on a non-empty list makes at most 3 model calls,
\* makes no call after a reply that int() accepts, and returns 0 when all
\* 3 calls raise or give a reply int() rejects.
C8_SelectRetries ==
    /\ sel_attempt <= 3
    /\ pc = "select" => sel_attempt < 3 /\ response = None
    /\ (pc = "index" /\ search_results # <<>>) =>
          IF response # None
          THEN /\ IntParses(response)
               /\ sel_attempt >= 1
               /\ best_result_index = Min(IntOf(response), Len(search_results) - 1)
          ELSE sel_attempt = 3 /\ best_result_index = 0

\* three calls have failed and 0 is returned
C8_Witness ==
    /\ pc = "index"
    /\ search_results # <<>>
    /\ sel_attempt = 3
    /\ response = None
    /\ best_result_index = 0

\* the reply holds t, r, u, e in a row, each in either case
HoldsTrueToken(reply) ==
    \E i \in 1..(Len(reply) - 3) :
        /\ reply[i] \in { "t", "T" }
        /\ reply[i + 1] \in { "r", "R" }
        /\ reply[i + 2] \in { "u", "U" }
        /\ reply[i + 3] \in { "e", "E" }

\* C9: check_search_or_not and contain_data_needed each return true exactly
\* when the model call succeeds and its reply holds "true" in any mix of
\* cases; any other reply and a failed call give false, whatever the page
\* text is.
C9_TrueTokenRule ==
    judge.fn \in { "needsSearch", "isRelevant" } =>
        (judge.result <=> (judge.reply # Raise /\ HoldsTrueToken(judge.reply)))

\* contain_data_needed has answered true to a reply in mixed case that
\* carries the token inside other text
C9_Witness ==
    /\ judge.fn = "isRelevant"
    /\ judge.reply = <<"T", "R", "U", "E", ".">>
    /\ judge.result

\* the chunks of a stream, joined in the order they came
RECURSIVE Joined(_)
Joined(cs) == IF cs = <<>> THEN <<>> ELSE cs[1] \o Joined(Tail(cs))

\* C10: stream_assistant_response appends exactly one assistant message, the
\* chunks joined in order, when the stream completes, and leaves the
\* conversation as it is when the call fails at the start or at any chunk.
C10_StreamAppends ==
    [][ (pc \in { "stream", "chunk" } /\ pc' = "input") =>
          IF notice'
          THEN assistant_convo' = assistant_convo
          ELSE /\ pc = "chunk"
               /\ assistant_convo' = Append(assistant_convo, Msg("assistant", Joined(chunks))) ]_vars

\* a reply streamed as "a" then "b" has been appended
C10_Witness ==
    /\ pc = "input"
    /\ ~ notice
    /\ Last(assistant_convo) = Msg("assistant", <<"a", "b">>)

\* conversation b is conversation a with messages added at its end
Extends(b, a) == Len(b) >= Len(a) /\ SubSeq(b, 1, Len(a)) = a

C12_NoSearchTurnFrame ==
    (pc \in { "stream", "chunk" } /\ calls.query = 0) =>
        /\ calls = [NoCalls EXCEPT !.decide = 1]
        /\ prompt \in Prompts
        /\ Last(assistant_convo) = Msg("user", prompt)
        /\ events \in { << "appendUser", "needsSearch" >>,
                        << "appendUser", "needsSearch", "generateReply" >> }

\* the reply is streamed in a turn without search, on the quoted prompt
C12_Witness ==
    /\ pc = "chunk"
    /\ calls.query = 0
    /\ events = << "appendUser", "needsSearch", "generateReply" >>
    /\ Last(assistant_convo) = Msg("user", <<"\"", "q", "\"">>)

\* C13: the loop of main ends by the user's interrupt only; an exception
\* that reaches the except Exception clause of main is logged and the loop
\* is back at input().
C13_OnlyInterruptEndsLoop ==
    /\ pc = "done" => logged = "shutdown"
    /\ logged = "main_error" => pc = "input"

\* after a full turn, input() has raised and main is at input() again
C13_Witness ==
    /\ logged = "main_error"
    /\ pc = "input"
    /\ turns >= 1
    /\ Len(assistant_convo) >= 3

Linked(page) == { i \in 1..Len(page) : page[i] = "a" }

\* C15: search_duckduckgo returns at most 10 candidates; a block without a
\* link takes none of the 10 places, so a page with 10 or more linked blocks
\* gives exactly 10 candidates; and the id of each candidate is its
\* zero-based rank in the returned list.
C15_TenRankedCandidates ==
    (pc = "searched" /\ blocks # Raise) =>
        /\ Len(search_results) <= MaxResults
        /\ Cardinality(Linked(blocks)) >= MaxResults => Len(search_results) = MaxResults
        /\ \A k \in 1..Len(search_results) : search_results[k].id = k - 1

\* C16 as stated: best_search_results has never just been called with an
\* empty list.  The state with pc = "index" is the one in which its call has
\* returned.
C16_NeverSelectsOnEmpty == pc = "index" => search_results # <<>>

\* C16, amended: the first attempt of the loop never has an empty list, and
\* the selection model is never called on one; but from the second attempt
\* on, once the removals have emptied the list, best_search_results is called
\* with the empty list and returns 0 without a model call.
C16_NoModelCallOnEmpty ==
    /\ (pc = "loop" /\ attempt = 0) => search_results # <<>>
    /\ pc = "select" => search_results # <<>>
    /\ (pc = "index" /\ search_results = <<>>)
          => /\ attempt >= 2
             /\ sel_attempt = 0
             /\ response = None
             /\ best_result_index = 0
             /\ calls.fetch >= 1

\* second attempt: the one candidate was removed and best_search_results
\* has returned 0 for the empty list
C16_Witness ==
    /\ pc = "index"
    /\ search_results = <<>>
    /\ attempt = 2
    /\ calls.select = 1
    /\ calls.fetch = 1

\* the step of ai_search that skips an attempt: line 230 to line 232
SkipStep == pc = "index" /\ pc' = "loop" /\ best_result_index >= Len(search_results)

\* C17 as stated: a skipped attempt uses up none of the 5 iterations, so
\* between attempts the iterations used are the attempts that fetched a page.
C17_SkipKeepsRetry == pc = "loop" => attempt = calls.fetch

\* C17, amended: a skipped attempt is one of the 5 iterations.  The
\* iteration is counted when it starts, the skip leaves the count, the list
\* and the calls made as they are, and no iteration starts after the fifth.
C17_SkipUsesRetry ==
    [][ /\ (pc = "loop" /\ pc' \in { "select", "index" })
              => (attempt < max_attempts /\ attempt' = attempt + 1)
        /\ SkipStep => /\ attempt' = attempt
                       /\ attempt >= 1
                       /\ search_results' = search_results
                       /\ calls' = calls
        /\ pc \in LoopPcs /\ pc' \in LoopPcs => attempt' >= attempt
        /\ attempt' <= max_attempts ]_vars

\* the one candidate failed on the first attempt and the four attempts
\* after it were skipped: the loop has used its 5 iterations on one fetch
C17_Witness ==
    /\ pc = "loop"
    /\ attempt = max_attempts
    /\ search_results = <<>>
    /\ calls.fetch = 1
    /\ calls.select = 1

\* C18: ai_search returns a text only from the relevance step of an attempt,
\* and then it is the text just fetched, which is truthy and was judged
\* relevant; the fetched candidate is still in the list (nothing was
\* removed in this attempt) and the return makes no call beyond the
\* relevance call.  A text judged relevant is returned at once, a falsy
\* fetched text goes on to the next attempt without a relevance call, and
\* after the return no call of ai_search is made in this turn.
C18_FoundIsFetchedAndRelevant ==
    [][ /\ (pc # "inject" /\ pc' = "inject" /\ context' # None)
              => /\ pc = "validate"
                 /\ context' = page_text
                 /\ Truthy(page_text)
                 /\ relevant' = "yes"
                 /\ IndexInRange(best_result_index, Len(search_results))
                 /\ search_results[PyPos(best_result_index, Len(search_results))].link
                        = page_link
                 /\ calls' = [calls EXCEPT !.relevant = @ + 1]
        /\ (pc = "validate" /\ relevant' = "yes")
              => (pc' = "inject" /\ context' = page_text)
        /\ (pc = "validate" /\ relevant' = "no") => (pc' = "loop" /\ context' = None)
        /\ (pc = "index" /\ calls'.fetch = calls.fetch + 1 /\ ~ Truthy(page_text'))
              => (pc' = "loop" /\ calls'.relevant = calls.relevant /\ relevant' = "none")
        /\ pc = "validate" => (Truthy(page_text) /\ relevant = "none")
        /\ (pc \in { "inject", "stream", "chunk" } /\ pc' \in { "inject", "stream", "chunk" })
              => calls' = calls ]_vars

\* the second attempt returned its text: the first page was judged not
\* relevant, the second relevant
C18_Witness ==
    /\ pc = "inject"
    /\ context = <<"Q">>
    /\ relevant = "yes"
    /\ calls.fetch = 2
    /\ calls.relevant = 2

\* C19: a failed attempt takes out of the list exactly the candidate whose
\* link was fetched in that attempt; the candidates before it and after it
\* stay, in their order, with the id and link they had.
C19_RemovesFetchedCandidate ==
    [][ FailedAttemptStep =>
          \E k \in 1..Len(search_results) :
              /\ search_results[k].link = page_link'
              /\ Len(search_results') = Len(search_results) - 1
              /\ \A j \in 1..(k - 1) : search_results'[j] = search_results[j]
              /\ \A j \in k..Len(search_results') : search_results'[j] = search_results[j + 1]
      ]_vars

\* of three candidates the middle one was fetched and removed: the two left
\* keep the ids 0 and 2
C19_Witness ==
    /\ pc = "loop"
    /\ attempt = 1
    /\ page_link = <<"u", "1">>
    /\ Len(search_results) = 2
    /\ search_results[1] = [id |-> 0, link |-> <<"u", "0">>]
    /\ search_results[2] = [id |-> 2, link |-> <<"u", "2">>]

\* how far ai_search has got: the calls made and the iterations started,
\* with the point between two iterations above the iteration before it
ProgressMeasure ==
    2 * (calls.query + calls.search + calls.select + calls.fetch + calls.relevant + attempt)
        + (IF pc = "loop" THEN 1 ELSE 0)

\* C20: ai_search always comes to its return when every external call
\* returns or raises: inside it a step is always possible, every step that
\* stays inside it raises ProgressMeasure, and ProgressMeasure is bounded.
\* On the way it makes at most one query-generation call, one search
\* request, 15 selection calls, 5 fetches and 5 relevance calls, and at its
\* return it has made exactly one query-generation call and one search
\* request.
C20_TerminatesWithinBudget ==
    /\ [](pc \in RetrievePcs => ENABLED RetrieveStep)
    /\ [][ /\ (pc \in RetrievePcs /\ pc' \in RetrievePcs)
                 => ProgressMeasure' > ProgressMeasure
           /\ pc' \in RetrievePcs \cup { "inject" }
                 => /\ ProgressMeasure'
                          <= 2 * (2 + SelectRetries * max_attempts + 3 * max_attempts) + 1
                    /\ calls'.query <= 1
                    /\ calls'.search <= 1
                    /\ calls'.select <= SelectRetries * max_attempts
                    /\ calls'.fetch <= max_attempts
                    /\ calls'.relevant <= max_attempts
                    /\ calls'.relevant <= calls'.fetch
           /\ (pc \in RetrievePcs /\ pc' = "inject")
                 => (calls'.query = 1 /\ calls'.search = 1) ]_vars

\* ai_search has returned after the most calls it can make: 5 attempts of 3
\* selection calls, each with a fetch and a relevance call
C20_Witness ==
    /\ pc = "inject"
    /\ context = None
    /\ calls.query = 1
    /\ calls.search = 1
    /\ calls.select = SelectRetries * max_attempts
    /\ calls.fetch = max_attempts
    /\ calls.relevant = max_attempts

====
